---- MODULE Spec2Model ----
(***************************************************************************)
(* A model of poop.js: the tokenizer, the recursive parser, the executor   *)
(* (class PoopFucker) and the driver that runs them in sequence.           *)
(*                                                                         *)
(* The source text is a sequence of one-character strings.  The module is  *)
(* ASCII, so the characters of the language are written as                 *)
(*     "u" "n" "c"   the three prefix characters of a token (う ん ち)     *)
(*     "!" "?" "."   the three marker glyphs (！ ？ 。)                     *)
(*     " "           a whitespace character (matches /\s/)                 *)
(*     "/" "*"       the characters of the comment opener and closer       *)
(*     "x"           any other character                                   *)
(* Indices into the source text and into the token array are 0-based, as   *)
(* in the code; CharAt and Substr translate to TLA+'s 1-based sequences.   *)
(***************************************************************************)
EXTENDS Integers, Sequences, FiniteSets, TLC

VARIABLES
    pieces,        \* history: the pieces the source text was put together from
    input,         \* tokenize: the source text (parameter `input`)
    current,       \* tokenize: the cursor `current`
    tokens,        \* tokenize: the array `tokens`; then parse's parameter
    pcur,          \* parse: the cursor `current` shared by the recursive calls
    loopDepth,     \* parse: the counter `loopDepth`
    frames,        \* parse: the `instructions` array of every active call of
                   \*        parseRecursively, the outermost call first
    instructions,  \* runCode: the tree parse returned
    pointer,       \* PoopFucker.pointer
    memory,        \* PoopFucker.memory, its array elements ( <<>> : no object yet)
    negProps,      \* PoopFucker.memory, its properties at negative indices:
                   \*        pairs <<index, value>>
    stack,         \* do: the active calls of do, each with its forEach position
    output,        \* the character codes written to process.stdout
    bodyRuns,      \* history: the calls this.do(instruction.value) of loop nodes
    maxPointer,    \* history: the largest value this.pointer has had
    err,           \* the Error thrown inside runCode
    surfaced,      \* the Error the driver's catch block throws
    pc             \* the position of the run

vars == <<pieces, input, current, tokens, pcur, loopDepth, frames, instructions,
          pointer, memory, negProps, stack, output, bodyRuns, maxPointer,
          err, surfaced, pc>>

----------------------------------------------------------------------------
(* Bounds of the model *)

MaxPieces == 3
MaxTokens == 8
MaxPairs == 5
MaxCell == 3
MaxLeft == 2
MaxRight == 3
MaxOut == 3
MaxRuns == 4
MaxProg == 4

----------------------------------------------------------------------------
(* Sequences *)

Min(a, b) == IF a <= b THEN a ELSE b
Max(a, b) == IF a >= b THEN a ELSE b

RECURSIVE Concat(_)
Concat(ss) == IF ss = <<>> THEN <<>> ELSE Head(ss) \o Concat(Tail(ss))

SeqsUpTo(S, n) == UNION { [1..k -> S] : k \in 0..n }

\* input[i] of the code (0-based)
CharAt(s, i) == s[i + 1]

\* String.prototype.substr(start, length) for start >= 0
Substr(s, start, n) == SubSeq(s, start + 1, Min(start + n, Len(s)))

----------------------------------------------------------------------------
(* Constants of the program *)

validTokens == { <<"u", "n", "c", "!">>, <<"u", "n", "c", "?">>, <<"u", "n", "c", ".">> }

definedInstructions ==
    [ INCREMENT_POINTER |-> <<".", "?">>,
      DECREMENT_POINTER |-> <<"?", ".">>,
      INCREMENT_VALUE   |-> <<".", ".">>,
      DECREMENT_VALUE   |-> <<"!", "!">>,
      IN_               |-> <<".", "!">>,   \* IN (a TLA+ keyword)
      OUT               |-> <<"!", ".">>,
      LOOP_START        |-> <<"!", "?">>,
      LOOP_END          |-> <<"?", "!">> ]

\* /\s/.test(c)
IsSpace(c) == c = " "

\* the table [["u"], ["n"], ["c"], ["!", "?", "."]] of the invalid-token report
AllowedAt(i) ==
    CASE i = 0 -> {"u"}
      [] i = 1 -> {"n"}
      [] i = 2 -> {"c"}
      [] OTHER -> {"!", "?", "."}

NoError == [kind |-> "none", c |-> "", at |-> 0]
Error(k) == [kind |-> k, c |-> "", at |-> 0]

----------------------------------------------------------------------------
(* tokenize *)

\* A variant of ScanComment that tests for the end of the input before it
\* tests for the closer
RECURSIVE ScanComment_EndFirst(_, _)
ScanComment_EndFirst(inp, cur) ==
    IF cur + 2 >= Len(inp) THEN -1
    ELSE IF Substr(inp, cur, 2) = <<"*", "/">> THEN cur
    ELSE ScanComment_EndFirst(inp, cur + 1)

\* The inner while of the comment branch, entered with cur = the value of
\* `current` after `current++` and the first `++current`.  The position of
\* the closer found, or -1 when the code throws.
RECURSIVE ScanComment(_, _)
ScanComment(inp, cur) ==
    IF Substr(inp, cur, 2) = <<"*", "/">> THEN cur
    ELSE IF cur + 2 >= Len(inp) THEN -1
    ELSE ScanComment(inp, cur + 1)

\* The indices of the window `token` whose character is not allowed there
BadIndices(token) == { i \in 0..(Len(token) - 1) : CharAt(token, i) \notin AllowedAt(i) }

\* A variant of FirstBad that reports the last such character
FirstBad_Last(token) == CHOOSE i \in BadIndices(token) : \A j \in BadIndices(token) : i >= j

\* forEach throws at the first of them
FirstBad(token) == CHOOSE i \in BadIndices(token) : \A j \in BadIndices(token) : i <= j

\* A variant of Marker that keeps the third character of the token
Marker_Third(token) == CharAt(token, 2)

\* token[3], the glyph tokenize keeps of a token
Marker(token) == CharAt(token, 3)

\* One iteration of the while loop of tokenize, from cursor cur with the
\* array toks: the cursor and the array after it, and the error thrown.
TokenizeIter(inp, cur, toks) ==
    LET token == Substr(inp, cur, 4) IN
    IF IsSpace(CharAt(inp, cur))
    THEN [current |-> cur + 1, tokens |-> toks, thrown |-> NoError]
    ELSE IF Substr(inp, cur, 2) = <<"/", "*">>
    THEN LET close == ScanComment(inp, cur + 2) IN
         IF close = -1
         THEN [current |-> cur, tokens |-> toks, thrown |-> Error("UnclosedComment")]
         ELSE [current |-> close + 2, tokens |-> toks, thrown |-> NoError]
    ELSE IF token \in validTokens
    THEN [current |-> cur + 4, tokens |-> Append(toks, Marker(token)), thrown |-> NoError]
    ELSE IF BadIndices(token) # {}
    THEN [current |-> cur, tokens |-> toks,
          thrown |-> [kind |-> "InvalidToken",
                      c |-> CharAt(token, FirstBad(token)),
                      at |-> cur + FirstBad(token) + 1]]
    ELSE [current |-> cur, tokens |-> toks, thrown |-> NoError]

----------------------------------------------------------------------------
(* parse *)

\* tokens[i] of the code (0-based); an index past the end reads undefined
TokenAt(toks, i) == IF i < Len(toks) THEN toks[i + 1] ELSE "undefined"

LoopNode(body) == [type |-> "loop", value |-> body]
InstructionNode(instruction) == [type |-> "instruction", value |-> instruction]

\* A variant of OddTokenCount with the test inverted
OddTokenCount_Inverted(toks) == Len(toks) % 2 # 1

\* The guard of parse: tokens.length % 2 !== 0
OddTokenCount(toks) == Len(toks) % 2 # 0

ParseThrow(cur, depth, frs, k) ==
    [pcur |-> cur, loopDepth |-> depth, frames |-> frs,
     thrown |-> Error(k), returned |-> FALSE, result |-> <<>>]

\* A variant of ReturnInstructions without the caller's `current++`
ReturnInstructions_NoAdvance(cur, depth, frs) ==
    IF Len(frs) = 1
    THEN [pcur |-> cur, loopDepth |-> depth, frames |-> <<>>,
          thrown |-> NoError, returned |-> TRUE, result |-> frs[1]]
    ELSE LET n == Len(frs) IN
         [pcur |-> cur, loopDepth |-> depth,
          frames |-> [SubSeq(frs, 1, n - 1) EXCEPT ![n - 1] = Append(@, LoopNode(frs[n]))],
          thrown |-> NoError, returned |-> FALSE, result |-> <<>>]

\* `return instructions` of the innermost active call of parseRecursively,
\* with the cursor at cur.  The outermost call returns to parse; any other
\* returns into the LOOP_START branch of its caller, which pushes the loop
\* node and runs its own `current++`.
ReturnInstructions(cur, depth, frs) ==
    IF Len(frs) = 1
    THEN [pcur |-> cur, loopDepth |-> depth, frames |-> <<>>,
          thrown |-> NoError, returned |-> TRUE, result |-> frs[1]]
    ELSE LET n == Len(frs) IN
         [pcur |-> cur + 1, loopDepth |-> depth,
          frames |-> [SubSeq(frs, 1, n - 1) EXCEPT ![n - 1] = Append(@, LoopNode(frs[n]))],
          thrown |-> NoError, returned |-> FALSE, result |-> <<>>]

\* A variant of EndOfTokens that reports a loop left open
EndOfTokens_Diagnose(cur, depth, frs) ==
    IF depth > 0
    THEN ParseThrow(cur, depth, frs, "UnmatchedLoopStart")
    ELSE ReturnInstructions(cur, depth, frs)

\* The while condition current < tokens.length fails: the innermost active
\* call falls out of its loop and returns, whatever loopDepth is
EndOfTokens(cur, depth, frs) == ReturnInstructions(cur, depth, frs)

\* A variant of IsInvalidPair that rejects nothing
IsInvalidPair_Never(instruction) == FALSE

\* instruction === "??" (the pair of two "?" glyphs)
IsInvalidPair(instruction) == instruction = <<"?", "?">>

\* A variant of IsInput that rejects nothing
IsInput_Never(instruction) == FALSE

\* instruction === definedInstructions.IN
IsInput(instruction) == instruction = definedInstructions.IN_

\* A variant of LoopEnd that breaks whatever loopDepth is
LoopEnd_AlwaysBreak(cur, depth, frs) == ReturnInstructions(cur, depth - 1, frs)

\* The LOOP_END branch, with the cursor on the second token of the pair:
\* inside a loop, loopDepth-- and break; outside, throw
LoopEnd(cur, depth, frs) ==
    IF depth > 0
    THEN ReturnInstructions(cur, depth - 1, frs)
    ELSE ParseThrow(cur, depth, frs, "UnmatchedLoopEnd")

\* One iteration of the while loop of the innermost active call of
\* parseRecursively, entered with current = cur < tokens.length.
ParseIter(toks, cur, depth, frs) ==
    LET instruction == <<TokenAt(toks, cur), TokenAt(toks, cur + 1)>>
        c == cur + 1
        n == Len(frs)
    IN  IF IsInvalidPair(instruction)
        THEN ParseThrow(c, depth, frs, "InvalidInstructionPair")
        ELSE IF IsInput(instruction)
        THEN ParseThrow(c, depth, frs, "UnsupportedInput")
        ELSE IF instruction = definedInstructions.LOOP_END
        THEN LoopEnd(c, depth, frs)
        ELSE IF instruction = definedInstructions.LOOP_START
        THEN [pcur |-> c + 1, loopDepth |-> depth + 1, frames |-> Append(frs, <<>>),
              thrown |-> NoError, returned |-> FALSE, result |-> <<>>]
        ELSE [pcur |-> c + 1, loopDepth |-> depth,
              frames |-> [frs EXCEPT ![n] = Append(@, InstructionNode(instruction))],
              thrown |-> NoError, returned |-> FALSE, result |-> <<>>]

----------------------------------------------------------------------------
(* class PoopFucker *)

\* The values an element of this.memory can hold
Num(n) == [t |-> "number", n |-> n]
Null == [t |-> "null", n |-> 0]
Undefined == [t |-> "undefined", n |-> 0]
NaN == [t |-> "NaN", n |-> 0]

\* The field initialiser memory = [0, null]
InitialMemory == <<Num(0), Null>>

\* this.memory[p]: an array element, a property at a negative index, or undefined
MemGet(mem, neg, p) ==
    IF p >= 0 /\ p < Len(mem) THEN mem[p + 1]
    ELSE IF \E e \in neg : e[1] = p THEN (CHOOSE e \in neg : e[1] = p)[2]
    ELSE Undefined

\* A variant of Adjust that takes undefined for 0
Adjust_UndefinedAsZero(v, d) ==
    IF v.t = "number" THEN Num(v.n + d)
    ELSE IF v.t \in {"null", "undefined"} THEN Num(d)
    ELSE NaN

\* v + d for the operand of ++ and -- (ToNumber(null) is 0; undefined and NaN give NaN)
Adjust(v, d) ==
    IF v.t = "number" THEN Num(v.n + d)
    ELSE IF v.t = "null" THEN Num(d)
    ELSE NaN

\* this.memory[p] = v.  A store at a negative index makes a property of the
\* array object and leaves its elements and its length alone.
MemSet(mem, neg, p, v) ==
    IF p >= 0 /\ p < Len(mem) THEN [memory |-> [mem EXCEPT ![p + 1] = v], negProps |-> neg]
    ELSE [memory |-> mem, negProps |-> { e \in neg : e[1] # p } \cup { <<p, v>> }]

\* A variant of FromCharCode that keeps the number as it is
FromCharCode_Raw(v) == IF v.t = "number" THEN v.n ELSE 0

\* String.fromCharCode(v): ToUint16 of the number, 0 for null, undefined and NaN
FromCharCode(v) == IF v.t = "number" THEN v.n % 65536 ELSE 0

ExecResult(p, mem, neg, out, thrown) ==
    [pointer |-> p, memory |-> mem, negProps |-> neg, output |-> out, thrown |-> thrown]

\* A variant of IncrementPointer without the test for null
IncrementPointer_AlwaysGrow(p, mem, neg, out) ==
    LET m == MemSet(mem, neg, p + 1, Num(0))
    IN  ExecResult(p + 1, Append(m.memory, Null), m.negProps, out, NoError)

\* A variant of IncrementPointer without the push of the new null
IncrementPointer_NoPush(p, mem, neg, out) ==
    IF MemGet(mem, neg, p + 1) = Null
    THEN ExecResult(p + 1, [mem EXCEPT ![p + 2] = Num(0)], neg, out, NoError)
    ELSE ExecResult(p + 1, mem, neg, out, NoError)

\* case INCREMENT_POINTER
IncrementPointer(p, mem, neg, out) ==
    IF MemGet(mem, neg, p + 1) = Null
    THEN ExecResult(p + 1, Append([mem EXCEPT ![p + 2] = Num(0)], Null), neg, out, NoError)
    ELSE ExecResult(p + 1, mem, neg, out, NoError)

\* case DECREMENT_POINTER
DecrementPointer(p, mem, neg, out) == ExecResult(p - 1, mem, neg, out, NoError)

\* case INCREMENT_VALUE
IncrementValue(p, mem, neg, out) ==
    LET m == MemSet(mem, neg, p, Adjust(MemGet(mem, neg, p), 1))
    IN  ExecResult(p, m.memory, m.negProps, out, NoError)

\* A variant of DecrementValue that counts up
DecrementValue_Up(p, mem, neg, out) ==
    LET m == MemSet(mem, neg, p, Adjust(MemGet(mem, neg, p), 1))
    IN  ExecResult(p, m.memory, m.negProps, out, NoError)

\* case DECREMENT_VALUE
DecrementValue(p, mem, neg, out) ==
    LET m == MemSet(mem, neg, p, Adjust(MemGet(mem, neg, p), -1))
    IN  ExecResult(p, m.memory, m.negProps, out, NoError)

\* case OUT
Output(p, mem, neg, out) ==
    ExecResult(p, mem, neg, Append(out, FromCharCode(MemGet(mem, neg, p))), NoError)

\* The switch of do on the value of a node of type "instruction"
ExecInstruction(value, p, mem, neg, out) ==
    IF value = definedInstructions.INCREMENT_POINTER
    THEN IncrementPointer(p, mem, neg, out)
    ELSE IF value = definedInstructions.DECREMENT_POINTER
    THEN DecrementPointer(p, mem, neg, out)
    ELSE IF value = definedInstructions.INCREMENT_VALUE
    THEN IncrementValue(p, mem, neg, out)
    ELSE IF value = definedInstructions.DECREMENT_VALUE
    THEN DecrementValue(p, mem, neg, out)
    ELSE IF value = definedInstructions.IN_
    THEN ExecResult(p, mem, neg, out, NoError)
    ELSE IF value = definedInstructions.OUT
    THEN Output(p, mem, neg, out)
    ELSE ExecResult(p, mem, neg, out, Error("UndefinedInstruction"))

\* A variant of LoopTest that tests the first cell
LoopTest_FirstCell(mem, neg, p) == MemGet(mem, neg, 0) # Num(0)

\* The loop test: this.memory[this.pointer] !== 0
LoopTest(mem, neg, p) == MemGet(mem, neg, p) # Num(0)

\* The states the model follows: cells, pointer and output within the bounds
WithinBounds(r) ==
    /\ r.pointer >= -MaxLeft
    /\ r.pointer <= MaxRight
    /\ Len(r.output) <= MaxOut
    /\ \A i \in 1..Len(r.memory) : r.memory[i].n <= MaxCell /\ r.memory[i].n >= -MaxCell
    /\ \A e \in r.negProps : e[2].n <= MaxCell /\ e[2].n >= -MaxCell

----------------------------------------------------------------------------
(* The source texts a run starts from *)

Chars == {"u", "n", "c", "!", "?", ".", " ", "/", "*", "x"}
Markers == {"!", "?", "."}

TokenOf(g) == <<"u", "n", "c", g>>
CommentOf(body) == <<"/", "*">> \o body \o <<"*", "/">>

\* Comment bodies: none of them, followed by the closer, holds an earlier closer
CommentBodies == { <<>>, <<"*">>, <<"/">>, <<"u", "n", "c", "!">> }

TokenPieces == { TokenOf(g) : g \in Markers }
CommentPieces == { CommentOf(b) : b \in CommentBodies }
LexPieces == { <<ch>> : ch \in Chars } \cup TokenPieces \cup CommentPieces

\* What may stand before every token of a program, and at its end
Separators == { <<>>, << <<" ">>, CommentOf(<<>>) >> }

RECURSIVE Build(_, _)
Build(ms, sep) ==
    IF ms = <<>> THEN sep ELSE sep \o << TokenOf(Head(ms)) >> \o Build(Tail(ms), sep)

\* Every text of at most MaxPieces pieces, and every program of at most
\* MaxTokens tokens with one of the separators
SourcePieces ==
    SeqsUpTo(LexPieces, MaxPieces)
        \cup { Build(ms, sep) : ms \in SeqsUpTo(Markers, MaxTokens), sep \in Separators }

----------------------------------------------------------------------------
(* The run: the driver calls runCode(code), which calls tokenize, parse and do *)

Init ==
    /\ pieces \in SourcePieces
    /\ input = Concat(pieces)
    /\ current = 0
    /\ tokens = <<>>
    /\ pcur = 0
    /\ loopDepth = 0
    /\ frames = <<>>
    /\ instructions = <<>>
    /\ pointer = 0
    /\ memory = <<>>
    /\ negProps = {}
    /\ stack = <<>>
    /\ output = <<>>
    /\ bodyRuns = 0
    /\ maxPointer = 0
    /\ err = NoError
    /\ surfaced = NoError
    /\ pc = "tokenize"

parseVars == <<pcur, loopDepth, frames, instructions>>
runTimeVars == <<pointer, memory, negProps, stack, output, bodyRuns, maxPointer>>

\* An iteration of the while loop of tokenize
Tokenize ==
    /\ pc = "tokenize"
    /\ current < Len(input)
    /\ LET r == TokenizeIter(input, current, tokens) IN
        /\ current' = r.current
        /\ tokens' = r.tokens
        /\ err' = r.thrown
        /\ pc' = IF r.thrown # NoError THEN "threw" ELSE "tokenize"
    /\ UNCHANGED <<pieces, input, parseVars, runTimeVars, surfaced>>

\* The while loop of tokenize ends: return tokens, and runCode calls parse
TokenizeReturn ==
    /\ pc = "tokenize"
    /\ current >= Len(input)
    /\ pc' = "parse"
    /\ UNCHANGED <<pieces, input, current, tokens, parseVars, runTimeVars, err, surfaced>>

\* The entry of parse: the check of the number of tokens, then the first
\* call of parseRecursively
Parse ==
    /\ pc = "parse"
    /\ IF OddTokenCount(tokens)
       THEN /\ err' = Error("OddTokenCount")
            /\ pc' = "threw"
            /\ UNCHANGED <<pcur, loopDepth, frames>>
       ELSE /\ pcur' = 0
            /\ loopDepth' = 0
            /\ frames' = << <<>> >>
            /\ pc' = "parseRecursively"
            /\ err' = err
    /\ UNCHANGED <<pieces, input, current, tokens, instructions, runTimeVars, surfaced>>

ParseApply(r) ==
    /\ pcur' = r.pcur
    /\ loopDepth' = r.loopDepth
    /\ frames' = r.frames
    /\ err' = r.thrown
    /\ instructions' = IF r.returned THEN r.result ELSE instructions
    /\ pc' = IF r.thrown # NoError THEN "threw"
             ELSE IF r.returned THEN "parsed"
             ELSE "parseRecursively"
    /\ UNCHANGED <<pieces, input, current, tokens, runTimeVars, surfaced>>

\* An iteration of the while loop of the innermost call of parseRecursively
ParseRecursively ==
    /\ pc = "parseRecursively"
    /\ pcur < Len(tokens)
    /\ ParseApply(ParseIter(tokens, pcur, loopDepth, frames))

\* The while loop of the innermost call ends with the tokens used up
ParseRecursivelyReturn ==
    /\ pc = "parseRecursively"
    /\ pcur >= Len(tokens)
    /\ ParseApply(EndOfTokens(pcur, loopDepth, frames))

\* runCode: new PoopFucker() and the call runTime.do(instructions)
RunCode ==
    /\ pc = "parsed"
    /\ pointer' = 0
    /\ memory' = InitialMemory
    /\ negProps' = {}
    /\ stack' = << [instructions |-> instructions, i |-> 1] >>
    /\ pc' = "do"
    /\ UNCHANGED <<pieces, input, current, tokens, parseVars, output, bodyRuns,
                   maxPointer, err, surfaced>>

Top == stack[Len(stack)]
Advance == [stack EXCEPT ![Len(stack)].i = @ + 1]

\* forEach of the innermost call of do reaches a node: a loop node tests
\* the cell and calls do on its body, or is done; an instruction node runs
DoNode ==
    /\ pc = "do"
    /\ Top.i <= Len(Top.instructions)
    /\ LET node == Top.instructions[Top.i] IN
        IF node.type = "loop"
        THEN /\ IF LoopTest(memory, negProps, pointer)
                THEN /\ bodyRuns < MaxRuns
                     /\ stack' = Append(stack, [instructions |-> node.value, i |-> 1])
                     /\ bodyRuns' = bodyRuns + 1
                ELSE /\ stack' = Advance
                     /\ bodyRuns' = bodyRuns
             /\ UNCHANGED <<pointer, memory, negProps, output, maxPointer, err, pc>>
        ELSE IF node.type = "instruction"
        THEN LET r == ExecInstruction(node.value, pointer, memory, negProps, output) IN
             /\ WithinBounds(r)
             /\ pointer' = r.pointer
             /\ memory' = r.memory
             /\ negProps' = r.negProps
             /\ output' = r.output
             /\ maxPointer' = Max(maxPointer, r.pointer)
             /\ bodyRuns' = bodyRuns
             /\ err' = r.thrown
             /\ pc' = IF r.thrown # NoError THEN "threw" ELSE "do"
             /\ stack' = IF r.thrown # NoError THEN stack ELSE Advance
        ELSE /\ err' = Error("InvalidInstructionType")
             /\ pc' = "threw"
             /\ UNCHANGED <<pointer, memory, negProps, output, stack, bodyRuns, maxPointer>>
    /\ UNCHANGED <<pieces, input, current, tokens, parseVars, surfaced>>

\* forEach of the innermost call of do is over: the call returns, into the
\* while of the loop node that called it, or to runCode
DoReturn ==
    /\ pc = "do"
    /\ Top.i > Len(Top.instructions)
    /\ stack' = SubSeq(stack, 1, Len(stack) - 1)
    /\ pc' = IF Len(stack) = 1 THEN "returned" ELSE "do"
    /\ UNCHANGED <<pieces, input, current, tokens, parseVars, pointer, memory,
                   negProps, output, bodyRuns, maxPointer, err, surfaced>>

\* The catch block around runCode
DriverCatch ==
    /\ pc = "threw"
    /\ surfaced' = Error("CouldNotFindFile")
    /\ pc' = "exit"
    /\ UNCHANGED <<pieces, input, current, tokens, parseVars, runTimeVars, err>>

Next ==
    \/ Tokenize
    \/ TokenizeReturn
    \/ Parse
    \/ ParseRecursively
    \/ ParseRecursivelyReturn
    \/ RunCode
    \/ DoNode
    \/ DoReturn
    \/ DriverCatch

\* The run is one thread that keeps taking its next step
Spec == Init /\ [][Next]_vars /\ WF_vars(Next)

----------------------------------------------------------------------------
(* The run from the call of parse on.  Every sequence of markers is what  *)
(* tokenize returns for the text of the corresponding tokens.             *)

ParseInit ==
    /\ \E ms \in SeqsUpTo(Markers, 2 * MaxPairs) :
        /\ pieces = Build(ms, <<>>)
        /\ tokens = ms
    /\ input = Concat(pieces)
    /\ current = Len(input)
    /\ pcur = 0
    /\ loopDepth = 0
    /\ frames = <<>>
    /\ instructions = <<>>
    /\ pointer = 0
    /\ memory = <<>>
    /\ negProps = {}
    /\ stack = <<>>
    /\ output = <<>>
    /\ bodyRuns = 0
    /\ maxPointer = 0
    /\ err = NoError
    /\ surfaced = NoError
    /\ pc = "parse"

ParseNext ==
    \/ Parse
    \/ ParseRecursively
    \/ ParseRecursivelyReturn
    \/ RunCode
    \/ DoNode
    \/ DoReturn
    \/ DriverCatch

ParseSpec == ParseInit /\ [][ParseNext]_vars /\ WF_vars(ParseNext)

----------------------------------------------------------------------------
(* The run from the call of parse on, for the programs that start with up  *)
(* to MaxCell IncrementValue pairs, followed by up to MaxProg pairs other  *)
(* than (B,B) and Input.                                                   *)

ExecPairs ==
    { definedInstructions.INCREMENT_POINTER, definedInstructions.DECREMENT_POINTER,
      definedInstructions.INCREMENT_VALUE, definedInstructions.DECREMENT_VALUE,
      definedInstructions.OUT, definedInstructions.LOOP_START,
      definedInstructions.LOOP_END }

\* n IncrementValue pairs
Increments(n) == [i \in 1..n |-> definedInstructions.INCREMENT_VALUE]

ExecInit ==
    /\ \E n \in 0..MaxCell, q \in SeqsUpTo(ExecPairs, MaxProg) :
        /\ tokens = Concat(Increments(n) \o q)
        /\ pieces = Build(tokens, <<>>)
    /\ input = Concat(pieces)
    /\ current = Len(input)
    /\ pcur = 0
    /\ loopDepth = 0
    /\ frames = <<>>
    /\ instructions = <<>>
    /\ pointer = 0
    /\ memory = <<>>
    /\ negProps = {}
    /\ stack = <<>>
    /\ output = <<>>
    /\ bodyRuns = 0
    /\ maxPointer = 0
    /\ err = NoError
    /\ surfaced = NoError
    /\ pc = "parse"

ExecSpec == ExecInit /\ [][ParseNext]_vars /\ WF_vars(ParseNext)

----------------------------------------------------------------------------
(* Properties of tokenize, checked under Spec *)

MinOf(S) == CHOOSE k \in S : \A j \in S : k <= j

\* C1 (tokenize terminates on every source text): every iteration of the
\* while loop of tokenize either throws or moves the cursor forward, so the
\* scan ends; and an iteration whose cursor is on no whitespace, no comment
\* opener and no complete valid token throws InvalidToken.
C1_TokenizeTerminates ==
    (pc = "tokenize" /\ current < Len(input)) =>
        LET r == TokenizeIter(input, current, tokens) IN
        /\ r.thrown # NoError \/ r.current > current
        /\ ( /\ ~IsSpace(CharAt(input, current))
             /\ Substr(input, current, 2) # <<"/", "*">>
             /\ Substr(input, current, 4) \notin validTokens )
           => r.thrown.kind = "InvalidToken"

\* A text put together from valid tokens, whitespace and whole comments only
WellFormedSource ==
    \A i \in 1..Len(pieces) : pieces[i] \in TokenPieces \cup CommentPieces \cup { <<" ">> }

\* The last glyph of every token piece, in order
RECURSIVE GlyphsOf(_)
GlyphsOf(ps) ==
    IF ps = <<>> THEN <<>>
    ELSE (IF Head(ps) \in TokenPieces THEN << Head(ps)[4] >> ELSE <<>>) \o GlyphsOf(Tail(ps))

IsPrefix(a, b) == Len(a) <= Len(b) /\ a = SubSeq(b, 1, Len(a))

\* C2: on a text of valid tokens, whitespace and well-formed comments only,
\* tokenize does not fail and returns exactly the last glyph of each token,
\* in source order (while it scans, a prefix of them); when the text holds
\* no token the run fails nowhere and writes no output.
C2_TokenizeYieldsMarkers ==
    WellFormedSource =>
        /\ err.kind \notin {"UnclosedComment", "InvalidToken"}
        /\ pc = "tokenize" => IsPrefix(tokens, GlyphsOf(pieces))
        /\ pc # "tokenize" => tokens = GlyphsOf(pieces)
        /\ GlyphsOf(pieces) = <<>> => (output = <<>> /\ pc \notin {"threw", "exit"})

\* tokenize has returned two different markers from a text that also holds
\* whitespace and a comment
C2_Witness ==
    /\ WellFormedSource
    /\ pc = "parse"
    /\ Len(tokens) >= 2
    /\ tokens[1] # tokens[2]
    /\ \E i \in 1..Len(pieces) : pieces[i] \in CommentPieces
    /\ \E i \in 1..Len(pieces) : pieces[i] = <<" ">>

\* The cursor of tokenize is on a comment opener
OpenerAtCursor ==
    pc = "tokenize" /\ current < Len(input) /\ Substr(input, current, 2) = <<"/", "*">>

\* The positions (0-based) of the closers that start at least two characters
\* after the start of the opener at the cursor and end inside the text
Closers ==
    { q \in (current + 2)..(Len(input) - 2) :
        CharAt(input, q) = "*" /\ CharAt(input, q + 1) = "/" }

\* C3: with the cursor on a comment opener, tokenize throws UnclosedComment
\* when no closer starts two or more characters after the opener's start, and
\* otherwise moves the cursor right behind the first such closer (also when
\* that closer ends the text), keeping the tokens; and UnclosedComment is
\* thrown in no other step.
C3_UnclosedCommentExactly ==
    [][ /\ OpenerAtCursor =>
            IF Closers = {}
            THEN pc' = "threw" /\ err'.kind = "UnclosedComment"
            ELSE /\ pc' = "tokenize"
                 /\ err' = NoError
                 /\ tokens' = tokens
                 /\ current' = MinOf(Closers) + 2
        /\ (err'.kind = "UnclosedComment" /\ err.kind # "UnclosedComment")
            => (OpenerAtCursor /\ Closers = {}) ]_vars

\* tokenize has skipped a comment whose closer is the last two characters of
\* the text, a token before it
C3_Witness ==
    /\ pc = "tokenize"
    /\ err = NoError
    /\ input = TokenOf("?") \o CommentOf(<<"*">>)
    /\ current = Len(input)
    /\ tokens = <<"?">>

\* C4: when tokenize throws InvalidToken, the position reported is the
\* 1-based index in the whole text of a character of the four-character
\* window at the cursor, the character reported is the character there, it
\* does not fit its place in a token, and every character of the window
\* before it does.
C4_InvalidTokenReport ==
    err.kind = "InvalidToken" =>
        LET i == err.at - 1 - current IN
        /\ err.at \in 1..Len(input)
        /\ i \in 0..3
        /\ err.c = input[err.at]
        /\ err.c \notin (CASE i = 0 -> {"u"} [] i = 1 -> {"n"} [] i = 2 -> {"c"}
                           [] OTHER -> {"!", "?", "."})
        /\ \A j \in 0..(i - 1) :
              input[current + j + 1] \in
                  (CASE j = 0 -> {"u"} [] j = 1 -> {"n"} [] OTHER -> {"c"})

\* InvalidToken behind a skipped comment, for the second character of the
\* window at the cursor
C4_Witness ==
    /\ err.kind = "InvalidToken"
    /\ input = CommentOf(<<>>) \o <<"u", "x">>
    /\ current = 4
    /\ err.c = "x"
    /\ err.at = 6

----------------------------------------------------------------------------
(* Properties of parse, checked under ParseSpec *)

BB == <<"?", "?">>
LS == definedInstructions.LOOP_START
LE == definedInstructions.LOOP_END

\* The tokens two by two
RECURSIVE PairsOf(_)
PairsOf(toks) ==
    IF Len(toks) < 2 THEN <<>>
    ELSE << <<toks[1], toks[2]>> >> \o PairsOf(SubSeq(toks, 3, Len(toks)))

\* The loops open after the first k pairs: LoopStarts less LoopEnds
Opens(ps, k) ==
    Cardinality({ j \in 1..k : ps[j] = LS }) - Cardinality({ j \in 1..k : ps[j] = LE })

\* Pair k is (B,B), Input, or a LoopEnd with no loop open
Violating(ps, k) ==
    \/ ps[k] = BB
    \/ ps[k] = definedInstructions.IN_
    \/ ps[k] = LE /\ Opens(ps, k - 1) = 0

Violations(ps) == { k \in 1..Len(ps) : Violating(ps, k) }

EvenTokens == Len(tokens) % 2 = 0
ParseOver == pc \notin {"tokenize", "parse", "parseRecursively"}
NothingExecuted == memory = <<>> /\ stack = <<>> /\ output = <<>>

\* Each node back to its pairs: a loop node to LoopStart, its body, LoopEnd
RECURSIVE Flatten(_)
Flatten(nodes) ==
    IF nodes = <<>> THEN <<>>
    ELSE LET h == Head(nodes) IN
         (IF h.type = "loop" THEN <<LS>> \o Flatten(h.value) \o <<LE>> ELSE << h.value >>)
            \o Flatten(Tail(nodes))

\* C5: for a marker sequence of odd length parse throws OddTokenCount,
\* whatever its pairs are, no call of parseRecursively is made, and the run
\* constructs no PoopFucker, executes no node and writes no output.
C5_OddTokenCount ==
    (Len(tokens) % 2 = 1 /\ pc \notin {"tokenize", "parse"}) =>
        /\ err.kind = "OddTokenCount"
        /\ pc \in {"threw", "exit"}
        /\ frames = <<>>
        /\ NothingExecuted

\* OddTokenCount for a sequence that starts with the pair (B,B)
C5_Witness ==
    /\ err.kind = "OddTokenCount"
    /\ tokens = <<"?", "?", ".", ".", "!">>
    /\ pc = "exit"

\* C6: for a marker sequence of even length whose first violating pair is a
\* LoopEnd read with no loop open, parse throws UnmatchedLoopEnd and the run
\* executes no node and writes no output.
C6_UnmatchedLoopEnd ==
    LET ps == PairsOf(tokens) IN
    (EvenTokens /\ ParseOver /\ Violations(ps) # {} /\ ps[MinOf(Violations(ps))] = LE) =>
        /\ err.kind = "UnmatchedLoopEnd"
        /\ pc \in {"threw", "exit"}
        /\ NothingExecuted

\* UnmatchedLoopEnd behind an instruction and a loop that was closed
C6_Witness ==
    /\ err.kind = "UnmatchedLoopEnd"
    /\ PairsOf(tokens) = << definedInstructions.INCREMENT_VALUE, LS, LE, LE >>
    /\ pc = "exit"

\* C7: for a marker sequence of even length whose first violating pair is
\* (B,B) or Input, at any loop depth, parse throws InvalidInstructionPair or
\* UnsupportedInput for it, with the cursor on that pair's second token: no
\* pair to its right was read.
C7_FailFastOnFirstViolation ==
    LET ps == PairsOf(tokens) IN
    (EvenTokens /\ ParseOver /\ Violations(ps) # {} /\ ps[MinOf(Violations(ps))] # LE) =>
        LET k == MinOf(Violations(ps)) IN
        /\ err.kind = (IF ps[k] = BB THEN "InvalidInstructionPair" ELSE "UnsupportedInput")
        /\ pc \in {"threw", "exit"}
        /\ pcur = 2 * k - 1
        /\ NothingExecuted

\* UnsupportedInput inside a loop body, with (B,B) and a LoopEnd to its right
C7_Witness ==
    /\ err.kind = "UnsupportedInput"
    /\ loopDepth = 1
    /\ PairsOf(tokens) = << LS, definedInstructions.IN_, BB, LE >>

\* C8: for a marker sequence of even length with no (B,B), no Input and
\* matched loops, parse returns, and flattening the tree it returns gives
\* back the sequence of pairs.
C8_ParseRoundTrip ==
    LET ps == PairsOf(tokens) IN
    (EvenTokens /\ ParseOver /\ Violations(ps) = {} /\ Opens(ps, Len(ps)) = 0) =>
        /\ pc \in {"parsed", "do", "returned"}
        /\ err = NoError
        /\ Flatten(instructions) = ps

\* parse has returned a loop that holds an instruction and a loop
C8_Witness ==
    /\ pc = "parsed"
    /\ loopDepth = 0
    /\ Len(instructions) = 1
    /\ instructions[1].type = "loop"
    /\ Len(instructions[1].value) = 2
    /\ instructions[1].value[1].type = "instruction"
    /\ instructions[1].value[2].type = "loop"

\* C9: for a marker sequence of even length with no violating pair and k > 0
\* loops left open at its end, parse returns without error, and the tree it
\* returns is the tree of the sequence with k LoopEnds added at its end:
\* every open loop holds all that follows its LoopStart.
C9_UnmatchedLoopStart ==
    LET ps == PairsOf(tokens)
        k == Opens(ps, Len(ps))
    IN  (EvenTokens /\ ParseOver /\ Violations(ps) = {} /\ k > 0) =>
            /\ pc \in {"parsed", "do", "returned"}
            /\ err = NoError
            /\ Flatten(instructions) = ps \o [i \in 1..k |-> LE]

\* parse has returned with two loops left open
C9_Witness ==
    /\ pc = "parsed"
    /\ instructions =
         << LoopNode(<< InstructionNode(definedInstructions.INCREMENT_VALUE),
                        LoopNode(<< InstructionNode(definedInstructions.OUT) >>) >>) >>

\* C10: whenever parse has returned, loopDepth is 0.
C10_DepthZeroOnReturn ==
    pc \in {"parsed", "do", "returned"} => loopDepth = 0

----------------------------------------------------------------------------
(* Properties of PoopFucker.do and of the driver *)

\* forEach of the innermost call of do is on a node
AtNode == pc = "do" /\ Top.i <= Len(Top.instructions)
CurrentNode == Top.instructions[Top.i]

\* The next step of do runs the switch on an instruction node of this value
Executes(value) ==
    AtNode /\ CurrentNode.type = "instruction" /\ CurrentNode.value = value

\* The pointer is the index of a cell of the tape (the last element of
\* memory is the null sentinel, not a cell)
PointerInTape == pointer >= 0 /\ pointer < Len(memory) - 1

\* The cells of the tape
Cells(mem) == SubSeq(mem, 1, Len(mem) - 1)

\* n IncrementValue nodes
IncrementNodes(n) == [i \in 1..n |-> InstructionNode(definedInstructions.INCREMENT_VALUE)]

\* C11: once the PoopFucker exists, the pointer is the index of a cell of
\* the tape: 0 <= pointer < number of cells.
C11_PointerValid ==
    memory # <<>> => PointerInTape

\* C12: IncrementPointer adds 1 to the pointer and does not fail; when the
\* new position is past the last cell it appends exactly one cell 0 (before
\* the sentinel), and otherwise it leaves every cell as it was, so a cell
\* visited again keeps its value; IncrementPointer then Output on a fresh
\* state writes the code 0.
C12_IncrementPointer ==
    [][ /\ Executes(definedInstructions.INCREMENT_POINTER) =>
            /\ pointer' = pointer + 1
            /\ pc' = "do"
            /\ err' = NoError
            /\ output' = output
            /\ negProps' = negProps
            /\ memory' = IF pointer + 1 >= Len(memory) - 1
                         THEN Cells(memory) \o << Num(0), Null >>
                         ELSE memory
        /\ ( /\ pc' = "returned"
             /\ instructions' = << InstructionNode(definedInstructions.INCREMENT_POINTER),
                                   InstructionNode(definedInstructions.OUT) >> )
           => output' = << 0 >> ]_vars

\* The second cell was made, set to 1, left and entered again
C12_Witness ==
    /\ pc = "returned"
    /\ instructions = << InstructionNode(definedInstructions.INCREMENT_POINTER),
                         InstructionNode(definedInstructions.INCREMENT_VALUE),
                         InstructionNode(definedInstructions.DECREMENT_POINTER),
                         InstructionNode(definedInstructions.INCREMENT_POINTER) >>
    /\ pointer = 1
    /\ memory = << Num(0), Num(1), Null >>

\* The program of n IncrementValue nodes and the node Loop([DecrementValue])
CountdownProgram(n) ==
    IncrementNodes(n) \o << LoopNode(<< InstructionNode(definedInstructions.DECREMENT_VALUE) >>) >>

\* C13: for every n in 0..MaxCell, the run of n IncrementValue nodes and the
\* node Loop([DecrementValue]) ends, with the body of the loop run exactly n
\* times and the cell at 0.
C13_CountdownLoop ==
    (pc = "parsed" /\ \E n \in 0..MaxCell : instructions = CountdownProgram(n))
        ~> ( /\ pc = "returned"
             /\ pointer = 0
             /\ memory = << Num(0), Null >>
             /\ \E n \in 0..MaxCell : instructions = CountdownProgram(n) /\ bodyRuns = n )

\* The run of three IncrementValue nodes and Loop([DecrementValue]) has ended
C13_Witness ==
    /\ pc = "returned"
    /\ instructions = CountdownProgram(3)
    /\ bodyRuns = 3
    /\ memory = << Num(0), Null >>

\* The cell at the pointer exists and holds 0
CellIsZero == pointer >= 0 /\ pointer < Len(memory) /\ memory[pointer + 1] = Num(0)

\* C14: a loop node tests the cell at the pointer as it is now: on 0 the
\* body is skipped and forEach moves on, otherwise do is called on the body
\* from its first node; the test changes nothing else.  An instruction node
\* that does not throw is followed by the next node of the same array.  A
\* call of do returns only behind the last node of its array, into the test
\* of the loop node that called it, with the pointer and the tape as the
\* body left them.
C14_LoopTestAtCurrentPointer ==
    [][ /\ (AtNode /\ CurrentNode.type = "loop") =>
            /\ pointer' = pointer
            /\ memory' = memory
            /\ negProps' = negProps
            /\ output' = output
            /\ pc' = "do"
            /\ IF CellIsZero
               THEN /\ stack' = [stack EXCEPT ![Len(stack)].i = Top.i + 1]
                    /\ bodyRuns' = bodyRuns
               ELSE /\ stack' = Append(stack, [instructions |-> CurrentNode.value, i |-> 1])
                    /\ bodyRuns' = bodyRuns + 1
        /\ (AtNode /\ CurrentNode.type = "instruction" /\ pc' = "do") =>
            stack' = [stack EXCEPT ![Len(stack)].i = Top.i + 1]
        /\ (pc = "do" /\ Len(stack') < Len(stack)) =>
            /\ Top.i = Len(Top.instructions) + 1
            /\ stack' = SubSeq(stack, 1, Len(stack) - 1)
            /\ pointer' = pointer
            /\ memory' = memory
            /\ negProps' = negProps
            /\ output' = output ]_vars

\* The body of the loop moved the pointer to a cell holding 0 and the loop
\* ended after one run, the pointer left where the body put it
C14_Witness ==
    /\ pc = "returned"
    /\ instructions = << InstructionNode(definedInstructions.INCREMENT_VALUE),
                         LoopNode(<< InstructionNode(definedInstructions.INCREMENT_POINTER) >>) >>
    /\ bodyRuns = 1
    /\ pointer = 1
    /\ memory = << Num(1), Num(0), Null >>

\* C15 as stated: an Output instruction run with the pointer on a cell
\* appends exactly one character, whose code is the value of that cell.
C15_OutputIsCellValue ==
    [][ (Executes(definedInstructions.OUT) /\ PointerInTape) =>
            output' = Append(output, memory[pointer + 1].n) ]_vars

\* C15 as amended: an Output instruction appends exactly one character and
\* changes nothing else; its code is the value of the cell at the pointer
\* modulo 65536 (the value itself from 0 to 65535), and 0 when the pointer
\* is on no cell; n IncrementValue then Output on a fresh state write the
\* code n.
C15_OutputCodeUnit ==
    [][ /\ Executes(definedInstructions.OUT) =>
            /\ output' = Append(output, IF PointerInTape
                                        THEN memory[pointer + 1].n % 65536
                                        ELSE 0)
            /\ pointer' = pointer
            /\ memory' = memory
            /\ negProps' = negProps
            /\ pc' = "do"
        /\ \A n \in 0..MaxCell :
            ( /\ pc' = "returned"
              /\ instructions' = IncrementNodes(n)
                                   \o << InstructionNode(definedInstructions.OUT) >> )
            => output' = << n >> ]_vars

\* Output of a cell holding -1 has written the code 65535
C15_Witness ==
    /\ pc = "returned"
    /\ instructions = << InstructionNode(definedInstructions.DECREMENT_VALUE),
                         InstructionNode(definedInstructions.OUT) >>
    /\ memory = << Num(-1), Null >>
    /\ output = << 65535 >>

\* Every node is a loop node of such nodes, or an instruction node of one
\* of the five instructions the switch of do runs
RECURSIVE ExecutableNodes(_)
ExecutableNodes(nodes) ==
    \A i \in 1..Len(nodes) :
        IF nodes[i].type = "loop" THEN ExecutableNodes(nodes[i].value)
        ELSE /\ nodes[i].type = "instruction"
             /\ nodes[i].value \in ExecPairs \ {LS, LE}

\* C16: every tree parse builds holds loop nodes and instruction nodes of
\* IncrementPointer, DecrementPointer, IncrementValue, DecrementValue and
\* Output only, and do throws neither UndefinedInstruction nor the error for
\* an invalid node type, and never runs the Input case.
C16_ParsedTreeIsExecutable ==
    /\ ExecutableNodes(instructions)
    /\ \A i \in 1..Len(frames) : ExecutableNodes(frames[i])
    /\ \A i \in 1..Len(stack) : ExecutableNodes(stack[i].instructions)
    /\ err.kind \notin {"UndefinedInstruction", "InvalidInstructionType"}
    /\ ~Executes(definedInstructions.IN_)

\* The run of IncrementValue, Loop([DecrementValue]), Output has ended
C16_Witness ==
    /\ pc = "returned"
    /\ instructions = << InstructionNode(definedInstructions.INCREMENT_VALUE),
                         LoopNode(<< InstructionNode(definedInstructions.DECREMENT_VALUE) >>),
                         InstructionNode(definedInstructions.OUT) >>
    /\ bodyRuns = 1
    /\ output = << 0 >>

\* C17: the error the driver throws is the error thrown inside runCode.
C17_SurfacedIsStageError ==
    pc = "exit" => surfaced.kind = err.kind

\* C18: IncrementValue and DecrementValue change the cell at the pointer by
\* +1 and -1 and nothing else; IncrementPointer and DecrementPointer change
\* no cell there is and no output; Output changes neither tape nor pointer.
C18_InstructionFrames ==
    [][ /\ Executes(definedInstructions.INCREMENT_VALUE) =>
            /\ PointerInTape
            /\ memory' = [memory EXCEPT ![pointer + 1] = Num(memory[pointer + 1].n + 1)]
            /\ negProps' = negProps
            /\ pointer' = pointer
            /\ output' = output
        /\ Executes(definedInstructions.DECREMENT_VALUE) =>
            /\ PointerInTape
            /\ memory' = [memory EXCEPT ![pointer + 1] = Num(memory[pointer + 1].n - 1)]
            /\ negProps' = negProps
            /\ pointer' = pointer
            /\ output' = output
        /\ ( \/ Executes(definedInstructions.INCREMENT_POINTER)
             \/ Executes(definedInstructions.DECREMENT_POINTER) ) =>
            /\ SubSeq(Cells(memory'), 1, Len(memory) - 1) = Cells(memory)
            /\ negProps' = negProps
            /\ output' = output
        /\ Executes(definedInstructions.OUT) =>
            /\ memory' = memory
            /\ negProps' = negProps
            /\ pointer' = pointer ]_vars

\* C19: DecrementPointer run with the pointer at 0 does not throw, leaves
\* the tape as it is and the pointer at -1; a loop node tested with the
\* pointer below 0 calls do on its body; and no step stores the number 0 at
\* a negative index, so that test cannot come out otherwise.
C19_NegativePointer ==
    [][ /\ (Executes(definedInstructions.DECREMENT_POINTER) /\ pointer = 0) =>
            /\ pointer' = -1
            /\ memory' = memory
            /\ negProps' = negProps
            /\ err' = NoError
            /\ pc' = "do"
        /\ (AtNode /\ CurrentNode.type = "loop" /\ pointer < 0) =>
            /\ stack' = Append(stack, [instructions |-> CurrentNode.value, i |-> 1])
            /\ pointer' = pointer
        /\ \A e \in negProps' : e[1] < 0 /\ e[2] # Num(0) ]_vars

\* Left of the tape, the body of a loop runs for the second time after an
\* IncrementValue and a DecrementValue there
C19_Witness ==
    /\ pc = "do"
    /\ pointer = -1
    /\ memory = << Num(0), Null >>
    /\ negProps = { << -1, NaN >> }
    /\ bodyRuns = 2
    /\ Len(stack) = 2
    /\ instructions = << InstructionNode(definedInstructions.DECREMENT_POINTER),
                         LoopNode(<< InstructionNode(definedInstructions.INCREMENT_VALUE),
                                     InstructionNode(definedInstructions.DECREMENT_VALUE) >>) >>

\* C20: once the PoopFucker exists, memory ends with null, every element
\* before it is a number, the pointer is below the index of the null, and
\* the number of cells is 1 plus the largest value the pointer has had.
C20_TapeShape ==
    memory # <<>> =>
        /\ memory[Len(memory)] = Null
        /\ \A i \in 1..(Len(memory) - 1) : memory[i].t = "number"
        /\ pointer < Len(memory) - 1
        /\ Len(memory) - 1 = 1 + maxPointer

\* The pointer has been two cells to the right and is back on the first cell
C20_Witness ==
    /\ pc = "returned"
    /\ maxPointer = 2
    /\ pointer = 0
    /\ memory = << Num(0), Num(0), Num(0), Null >>
    /\ Len(instructions) = 4

====
